---------------------------- MODULE Spec2Model ----------------------------
(***************************************************************************)
(* The glucose forecast / predictive alert HTTP service.                   *)
(*                                                                         *)
(* Two server files are modelled: src/index.js (app "index") and the older *)
(* server src/unnamed/part_000 (app "part_000").  Each request is handled  *)
(* by one of them in two steps: the part of the handler before             *)
(* `await openai.chat.completions.create(...)` (the Recv actions) and the  *)
(* continuation that runs once the provider's promise has settled (the     *)
(* Resume actions).  The provider is an opaque collaborator that may       *)
(* resolve with any content, reject, or never answer.                      *)
(*                                                                         *)
(* JavaScript values are records [t, n, s, a]: t is the type tag, n the    *)
(* number in TENTHS (120 is n = 1200, 1.5 is n = 15), s the characters of  *)
(* a string (a sequence of one-character strings), a the elements of an    *)
(* array.  Numbers with more than one fractional digit, exponents, hex     *)
(* literals, Infinity and string escapes are outside the modelled domain.  *)
(***************************************************************************)
EXTENDS Integers, Sequences, FiniteSets, TLC

\* Number of requests the concurrent specification handles.
NumReq == 2

----------------------------------------------------------------------------
(* JavaScript values *)

JS(t, n, s, a) == [t |-> t, n |-> n, s |-> s, a |-> a]
Undef   == JS("undefined", 0, <<>>, <<>>)
Null    == JS("null", 0, <<>>, <<>>)
NaN     == JS("nan", 0, <<>>, <<>>)
Bool(b) == JS("boolean", IF b THEN 10 ELSE 0, <<>>, <<>>)
Tenths(n) == JS("number", n, <<>>, <<>>)
Num(n)  == Tenths(n * 10)
Str(s)  == JS("string", 0, s, <<>>)
Arr(a)  == JS("array", 0, <<>>, a)

IsNum(v) == v.t = "number"

Digits == <<"0", "1", "2", "3", "4", "5", "6", "7", "8", "9">>
IsDigit(c) == \E d \in DOMAIN Digits : Digits[d] = c
DigitVal(c) == (CHOOSE d \in DOMAIN Digits : Digits[d] = c) - 1
IsSpace(c) == c \in {" ", "\n", "\t"}

\* First position >= i of s that holds no digit (Len(s) + 1 when none).
RECURSIVE DigitsEnd(_, _)
DigitsEnd(s, i) ==
    IF i <= Len(s) /\ IsDigit(s[i]) THEN DigitsEnd(s, i + 1) ELSE i

\* The value of the digits s[i..j-1].
RECURSIVE IntVal(_, _, _)
IntVal(s, i, j) ==
    IF j <= i THEN 0 ELSE IntVal(s, i, j - 1) * 10 + DigitVal(s[j - 1])

RECURSIVE SkipSpace(_, _)
SkipSpace(s, i) ==
    IF i <= Len(s) /\ IsSpace(s[i]) THEN SkipSpace(s, i + 1) ELSE i

RECURSIVE SkipSpaceBack(_, _)
SkipSpaceBack(s, j) ==
    IF j >= 1 /\ IsSpace(s[j]) THEN SkipSpaceBack(s, j - 1) ELSE j

\* String.prototype.trim
Trim(s) == SubSeq(s, SkipSpace(s, 1), SkipSpaceBack(s, Len(s)))

At(s, i, c) == i <= Len(s) /\ s[i] = c

\* A scanned literal: [ok, n (tenths), p (the position after it)], from
\* the positions of its first digit (i1), of the end of its integer part
\* (i2) and of the end of its fraction (i3).
Decimal(s, i1, i2, i3) ==
    [ok |-> i2 > i1 \/ i3 > i2 + 1,
     n  |-> IntVal(s, i1, i2) * 10
            + (IF i3 > i2 + 1 THEN DigitVal(s[i2 + 1]) ELSE 0),
     p  |-> i3]

FractionEnd(s, i2) == IF At(s, i2, ".") THEN DigitsEnd(s, i2 + 1) ELSE i2

ScanFraction(s, i1, i2) == Decimal(s, i1, i2, FractionEnd(s, i2))

ScanUnsigned(s, i1) == ScanFraction(s, i1, DigitsEnd(s, i1))

Signed(negative, d) == [d EXCEPT !.n = IF negative THEN 0 - d.n ELSE d.n]

\* The longest prefix of s from position i that is a StrDecimalLiteral
\* (sign, digits, fraction).
ScanDecimal(s, i) ==
    Signed(At(s, i, "-"),
           ScanUnsigned(s, IF At(s, i, "-") \/ At(s, i, "+") THEN i + 1 ELSE i))

FloatOf(d) == IF d.ok THEN Tenths(d.n) ELSE NaN

\* parseFloat(string)
ParseFloat(s) == FloatOf(ScanDecimal(s, SkipSpace(s, 1)))

WholeLiteral(t, d) == IF d.ok /\ d.p = Len(t) + 1 THEN Tenths(d.n) ELSE NaN

TrimmedToNumber(t) ==
    IF Len(t) = 0 THEN Num(0) ELSE WholeLiteral(t, ScanDecimal(t, 1))

\* StringToNumber: the whole trimmed string is a numeric literal, "" is 0.
StringToNumber(s) == TrimmedToNumber(Trim(s))

\* Number(v), the numeric coercion every arithmetic operator and isNaN apply.
RECURSIVE ToNumber(_)
ToNumber(v) ==
    CASE v.t = "undefined" -> NaN
      [] v.t = "null"      -> Num(0)
      [] v.t = "boolean"   -> Tenths(v.n)
      [] v.t = "number"    -> v
      [] v.t = "nan"       -> NaN
      [] v.t = "string"    -> StringToNumber(v.s)
      [] v.t = "array"     ->
            IF Len(v.a) = 0 THEN Num(0)
            ELSE IF Len(v.a) > 1 THEN NaN
            ELSE IF v.a[1].t \in {"undefined", "null"} THEN Num(0)
            ELSE IF v.a[1].t \in {"boolean", "object"} THEN NaN
            ELSE ToNumber(v.a[1])
      [] OTHER             -> NaN

\* isNaN(v)
IsNaN(v) == ToNumber(v).t = "nan"

\* ToBoolean(v): what `!v` and `if (v)` test.
Truthy(v) ==
    CASE v.t \in {"undefined", "null", "nan"} -> FALSE
      [] v.t \in {"boolean", "number"}        -> v.n # 0
      [] v.t = "string"                       -> Len(v.s) > 0
      [] OTHER                                -> TRUE

\* Array.isArray(v)
IsArray(v) == v.t = "array"

AnyNaN(x, y) == x.t = "nan" \/ y.t = "nan"
Mul(x, y) == IF AnyNaN(x, y) THEN NaN ELSE Tenths((x.n * y.n) \div 10)
Add(x, y) == IF AnyNaN(x, y) THEN NaN ELSE Tenths(x.n + y.n)
Sub(x, y) == IF AnyNaN(x, y) THEN NaN ELSE Tenths(x.n - y.n)
Less(x, y) == ~AnyNaN(x, y) /\ x.n < y.n
Min(x, y) == IF AnyNaN(x, y) THEN NaN ELSE IF x.n <= y.n THEN x ELSE y
Max(x, y) == IF AnyNaN(x, y) THEN NaN ELSE IF x.n >= y.n THEN x ELSE y

\* a * b
Times(a, b) == Mul(ToNumber(a), ToNumber(b))

\* a + b and a - b on numbers (string concatenation is not modelled: the
\* operands the handlers add are numbers or NaN).
Plus(a, b) == Add(ToNumber(a), ToNumber(b))

Minus(a, b) == Sub(ToNumber(a), ToNumber(b))

\* a < b and a > b: false as soon as an operand is NaN.
LessThan(a, b) == Less(ToNumber(a), ToNumber(b))

GreaterThan(a, b) == Less(ToNumber(b), ToNumber(a))

\* Math.min / Math.max: NaN as soon as an argument is NaN.
MathMin(a, b) == Min(ToNumber(a), ToNumber(b))

MathMax(a, b) == Max(ToNumber(a), ToNumber(b))

----------------------------------------------------------------------------
(* Strings *)

UpperCase == <<"A", "B", "C", "D", "E", "F", "G", "H", "I", "J", "K", "L", "M",
               "N", "O", "P", "Q", "R", "S", "T", "U", "V", "W", "X", "Y", "Z">>
LowerCase == <<"a", "b", "c", "d", "e", "f", "g", "h", "i", "j", "k", "l", "m",
               "n", "o", "p", "q", "r", "s", "t", "u", "v", "w", "x", "y", "z">>

LowerChar(c) ==
    IF \E k \in DOMAIN UpperCase : UpperCase[k] = c
    THEN LowerCase[CHOOSE k \in DOMAIN UpperCase : UpperCase[k] = c]
    ELSE c

\* String.prototype.toLowerCase
ToLowerCase(s) == [k \in DOMAIN s |-> LowerChar(s[k])]

\* String.prototype.includes
Includes(s, sub) ==
    \E k \in 1..(Len(s) - Len(sub) + 1) : SubSeq(s, k, k + Len(sub) - 1) = sub

\* The characters of a decimal number 0..99 written with two digits.
TwoDigits(n) == <<Digits[(n \div 10) + 1], Digits[(n % 10) + 1]>>

\* String.prototype.indexOf / lastIndexOf for one character, 0-based, -1
\* when absent.
RECURSIVE FirstAt(_, _, _)
FirstAt(s, c, k) ==
    IF k > Len(s) THEN 0 ELSE IF s[k] = c THEN k ELSE FirstAt(s, c, k + 1)

RECURSIVE LastAt(_, _, _)
LastAt(s, c, k) ==
    IF k < 1 THEN 0 ELSE IF s[k] = c THEN k ELSE LastAt(s, c, k - 1)

IndexOf(s, c) == FirstAt(s, c, 1) - 1

LastIndexOf(s, c) == LastAt(s, c, Len(s)) - 1

\* String.prototype.slice(start, end), 0-based, end exclusive, a negative
\* index counted from the end.
Slice(s, start, end) ==
    LET from == IF start < 0 THEN (IF Len(s) + start < 0 THEN 0 ELSE Len(s) + start)
                ELSE (IF start > Len(s) THEN Len(s) ELSE start)
        to   == IF end < 0 THEN (IF Len(s) + end < 0 THEN 0 ELSE Len(s) + end)
                ELSE (IF end > Len(s) THEN Len(s) ELSE end)
    IN  SubSeq(s, from + 1, to)

----------------------------------------------------------------------------
(* JSON.parse over characters.  An object is JS("object", 0, <<>>, members), *)
(* each member JS("member", 0, key, <<value>>).                              *)

Member(k, v) == JS("member", 0, k, <<v>>)
Object(members) == JS("object", 0, <<>>, members)

\* The positions of the members of obj named key.
Hits(obj, key) == {k \in DOMAIN obj.a : obj.a[k].s = key}

LastHit(obj, hits) ==
    IF obj.t # "object" \/ hits = {} THEN Undef
    ELSE obj.a[CHOOSE k \in hits : \A j \in hits : j <= k].a[1]

\* obj.key: the last member of that name, undefined when there is none.
Get(obj, key) == LastHit(obj, Hits(obj, key))

Replace(obj, key, v, hits) ==
    IF hits = {} THEN Object(Append(obj.a, Member(key, v)))
    ELSE Object([k \in DOMAIN obj.a |->
                    IF k \in hits THEN Member(key, v) ELSE obj.a[k]])

\* obj.key = v
Put(obj, key, v) == Replace(obj, key, v, Hits(obj, key))

ParseFail == [ok |-> FALSE, v |-> Undef, p |-> 0]
Parsed(v, p) == [ok |-> TRUE, v |-> v, p |-> p]

\* First position >= i holding a double quote (Len(s) + 1 when none).
RECURSIVE QuoteEnd(_, _)
QuoteEnd(s, i) ==
    IF i <= Len(s) /\ s[i] # "\"" THEN QuoteEnd(s, i + 1) ELSE i

\* The string between the quotes at i and j (escapes are not modelled).
Quoted(s, i, j) ==
    IF At(s, i, "\"") /\ j <= Len(s)
       /\ \A k \in (i + 1)..(j - 1) : s[k] \notin {"\\", "\n", "\t"}
    THEN Parsed(Str(SubSeq(s, i + 1, j - 1)), j + 1)
    ELSE ParseFail

ParseString(s, i) == Quoted(s, i, QuoteEnd(s, i + 1))

\* A JSON number: -? int frac? (no leading +, no leading zeros, digits on
\* both sides of the point); i1 and i2 bound its integer part.
NumberAt(s, i1, i2, d) ==
    IF d.ok /\ i2 > i1 /\ (s[i1] = "0" => i2 = i1 + 1)
       /\ (At(s, i2, ".") => d.p > i2 + 1)
    THEN Parsed(Tenths(d.n), d.p)
    ELSE ParseFail

UnsignedAt(s, i, i1) == NumberAt(s, i1, DigitsEnd(s, i1), ScanDecimal(s, i))

ParseNumber(s, i) == UnsignedAt(s, i, IF At(s, i, "-") THEN i + 1 ELSE i)

\* Whether the characters of lit stand at position i of s.
Match(s, i, lit) ==
    i >= 1 /\ i + Len(lit) - 1 <= Len(s) /\ SubSeq(s, i, i + Len(lit) - 1) = lit

ParseLiteral(s, i) ==
    IF Match(s, i, <<"t", "r", "u", "e">>) THEN Parsed(Bool(TRUE), i + 4)
    ELSE IF Match(s, i, <<"f", "a", "l", "s", "e">>) THEN Parsed(Bool(FALSE), i + 5)
    ELSE IF Match(s, i, <<"n", "u", "l", "l">>) THEN Parsed(Null, i + 4)
    ELSE ParseFail

RECURSIVE ParseValue(_, _)
RECURSIVE ParseMembers(_, _, _)
RECURSIVE ParseElements(_, _, _)

\* After the members acc: "}" ends the object, "," announces a member.
MembersNext(s, acc, next) ==
    IF At(s, next, "}") THEN Parsed(Object(acc), next + 1)
    ELSE IF At(s, next, ",") THEN ParseMembers(s, SkipSpace(s, next + 1), acc)
    ELSE ParseFail

MemberValue(s, acc, key, val) ==
    IF ~val.ok THEN ParseFail
    ELSE MembersNext(s, Append(acc, Member(key.v.s, val.v)), SkipSpace(s, val.p))

MemberColon(s, acc, key, colon) ==
    IF ~At(s, colon, ":") THEN ParseFail
    ELSE MemberValue(s, acc, key, ParseValue(s, SkipSpace(s, colon + 1)))

MemberKey(s, acc, key) ==
    IF ~key.ok THEN ParseFail
    ELSE MemberColon(s, acc, key, SkipSpace(s, key.p))

\* The members of an object from position i (a key is expected there).
ParseMembers(s, i, acc) == MemberKey(s, acc, ParseString(s, i))

ElementsNext(s, acc, next) ==
    IF At(s, next, "]") THEN Parsed(Arr(acc), next + 1)
    ELSE IF At(s, next, ",") THEN ParseElements(s, SkipSpace(s, next + 1), acc)
    ELSE ParseFail

ElementValue(s, acc, val) ==
    IF ~val.ok THEN ParseFail
    ELSE ElementsNext(s, Append(acc, val.v), SkipSpace(s, val.p))

\* The elements of an array from position i (a value is expected there).
ParseElements(s, i, acc) == ElementValue(s, acc, ParseValue(s, i))

\* An object or array whose opening bracket precedes position j.
ParseObject(s, j) ==
    IF At(s, j, "}") THEN Parsed(Object(<<>>), j + 1) ELSE ParseMembers(s, j, <<>>)

ParseArray(s, j) ==
    IF At(s, j, "]") THEN Parsed(Arr(<<>>), j + 1) ELSE ParseElements(s, j, <<>>)

ParseValue(s, i) ==
    IF At(s, i, "{") THEN ParseObject(s, SkipSpace(s, i + 1))
    ELSE IF At(s, i, "[") THEN ParseArray(s, SkipSpace(s, i + 1))
    ELSE IF At(s, i, "\"") THEN ParseString(s, i)
    ELSE IF i <= Len(s) /\ (IsDigit(s[i]) \/ s[i] = "-") THEN ParseNumber(s, i)
    ELSE ParseLiteral(s, i)

WholeText(s, val) ==
    IF val.ok /\ SkipSpace(s, val.p) = Len(s) + 1
    THEN [ok |-> TRUE, v |-> val.v]
    ELSE [ok |-> FALSE, v |-> Undef]

\* JSON.parse(s): [ok, v]; ~ok is the SyntaxError it throws.
JSONParse(s) == WholeText(s, ParseValue(s, SkipSpace(s, 1)))

----------------------------------------------------------------------------
(* String literals of the handlers, as characters *)

\* 'forecast_mgdl'
KeyForecastMgdl ==
    <<"f", "o", "r", "e", "c", "a", "s", "t", "_", "m", "g", "d", "l">>

\* 'risk_type'
KeyRiskType ==
    <<"r", "i", "s", "k", "_", "t", "y", "p", "e">>

\* 'forecast_minutes'
KeyForecastMinutes ==
    <<"f", "o", "r", "e", "c", "a", "s", "t", "_", "m", "i", "n", "u", "t",
      "e", "s">>

\* 'Hypo risk'
HypoRisk ==
    <<"H", "y", "p", "o", " ", "r", "i", "s", "k">>

\* 'Hyper risk'
HyperRisk ==
    <<"H", "y", "p", "e", "r", " ", "r", "i", "s", "k">>

\* 'Stable'
Stable ==
    <<"S", "t", "a", "b", "l", "e">>

\* 'fast'
Fast ==
    <<"f", "a", "s", "t">>

\* 'long'
Long ==
    <<"l", "o", "n", "g">>

\* 'walk'
Walk ==
    <<"w", "a", "l", "k">>

\* 'run'
Run ==
    <<"r", "u", "n">>

----------------------------------------------------------------------------
(* src/index.js: POST /forecast *)

\* The guard of line 17 negated: the request goes on to the provider.
ForecastValid(body) ==
    ~(~Truthy(body.currentGlucose) \/ IsNaN(body.currentGlucose))

\* Math.floor
MathFloor(v) == IF v.t = "nan" THEN NaN ELSE Tenths((v.n \div 10) * 10)

\* Math.floor(Math.random() * 10 - 5); draw is Math.random() in hundredths
\* (0..99), so Math.random() * 10 is draw tenths.
RandomOffset(draw) == MathFloor(Minus(Tenths(draw), Num(5)))

\* Plausible with the window closed at 400: `forecast <= 400`.
PlausibleInclusive(currentGlucose, forecast, draw) ==
    IF ~IsNaN(forecast) /\ GreaterThan(forecast, Num(40))
       /\ ~GreaterThan(forecast, Num(400))
    THEN forecast
    ELSE Plus(ToNumber(currentGlucose), RandomOffset(draw))

\* Lines 40-43.
Plausible(currentGlucose, forecast, draw) ==
    IF ~IsNaN(forecast) /\ GreaterThan(forecast, Num(40))
       /\ LessThan(forecast, Num(400))
    THEN forecast
    ELSE Plus(ToNumber(currentGlucose), RandomOffset(draw))

\* Lines 36-43: safeForecast for the provider's text.
SafeForecast(currentGlucose, text, draw) ==
    Plausible(currentGlucose, ParseFloat(Trim(text)), draw)

Failed(status, field, text) ==
    [status |-> status, body |-> [field |-> field, text |-> text]]

\* Lines 28-49: the continuation of the handler after the await.  A
\* rejected call, or a content that is not a string (null.trim() throws),
\* ends in the catch.
ForecastResponse(body, reply, draw) ==
    IF reply.state = "rejected" \/ reply.content.t # "string"
    THEN Failed(500, "error", "Forecast failed")
    ELSE [status |-> 200,
          body |-> [forecast |->
                       SafeForecast(body.currentGlucose, reply.content.s, draw)]]

----------------------------------------------------------------------------
(* src/index.js: POST /predict *)

\* The guard of line 57 negated.
PredictValid(body) ==
    ~(~Truthy(body.glucoseHistory) \/ ~IsArray(body.glucoseHistory)
      \/ Len(body.glucoseHistory.a) = 0)

\* v?.toLowerCase().includes(sub): undefined (falsy) when v is undefined
\* or null.  v is a string or absent in every modelled request.
OptIncludes(v, sub) == v.t = "string" /\ Includes(ToLowerCase(v.s), sub)

\* Line 65.
AdjustFast(body, adjustment) ==
    IF OptIncludes(body.insulinType, Fast)
    THEN Minus(adjustment, Times(body.insulinUnits, Num(3))) ELSE adjustment

\* Line 66.
AdjustLong(body, adjustment) ==
    IF OptIncludes(body.insulinType, Long)
    THEN Minus(adjustment, Times(body.insulinUnits, Tenths(15))) ELSE adjustment

\* Line 67.
AdjustCalories(body, adjustment) ==
    IF GreaterThan(body.calories, Num(400))
    THEN Plus(adjustment, Num(15)) ELSE adjustment

\* Lines 68-69.
AdjustActivity(body, adjustment) ==
    IF OptIncludes(body.activity, Walk) \/ OptIncludes(body.activity, Run)
    THEN Minus(adjustment, Num(10)) ELSE adjustment

\* Lines 64-69.
Adjustment(body) ==
    AdjustActivity(body,
        AdjustCalories(body, AdjustLong(body, AdjustFast(body, Num(0)))))

\* Line 61.
LatestGlucose(body) == body.glucoseHistory.a[Len(body.glucoseHistory.a)]

\* Line 71 (the readings of every modelled history are numbers).
ApproxForecast(body) == Plus(LatestGlucose(body), Adjustment(body))

\* Line 72.
BoundedForecast(body) ==
    MathMax(Num(60), MathMin(ApproxForecast(body), Num(250)))

\* Lines 110-113: the object parsed out of the provider's text.
ExtractJSON(text) ==
    JSONParse(Slice(text, IndexOf(text, "{"), LastIndexOf(text, "}") + 1))

\* DeriveRisk with the lower threshold inclusive: `forecast_mgdl <= 100`.
DeriveRiskInclusive(forecast_mgdl) ==
    IF ~GreaterThan(forecast_mgdl, Num(100)) /\ ~IsNaN(forecast_mgdl)
    THEN Str(HypoRisk)
    ELSE IF GreaterThan(forecast_mgdl, Num(150)) THEN Str(HyperRisk)
    ELSE Str(Stable)

\* Lines 118-120.
DeriveRisk(forecast_mgdl) ==
    IF LessThan(forecast_mgdl, Num(100)) THEN Str(HypoRisk)
    ELSE IF GreaterThan(forecast_mgdl, Num(150)) THEN Str(HyperRisk)
    ELSE Str(Stable)

\* FallbackForecast without the substitution of line 116.
FallbackForecastMissing(parsed, boundedForecast) == parsed

\* Line 116.
FallbackForecast(parsed, boundedForecast) ==
    IF IsNaN(Get(parsed, KeyForecastMgdl))
    THEN Put(parsed, KeyForecastMgdl, boundedForecast) ELSE parsed

\* Lines 117-121.
FallbackRisk(parsed) ==
    IF ~Truthy(Get(parsed, KeyRiskType))
    THEN Put(parsed, KeyRiskType, DeriveRisk(Get(parsed, KeyForecastMgdl)))
    ELSE parsed

\* Lines 115-121: the fallbacks applied to the parsed object.
Fallback(parsed, boundedForecast) ==
    FallbackRisk(FallbackForecast(parsed, boundedForecast))

\* At minute `at` of the day, as HH:MM.
HHMM(at) == TwoDigits(at \div 60) \o <<":">> \o TwoDigits(at % 60)

\* Lines 123-130: alertTime.toTimeString().slice(0, 5).  now is the local
\* time in minutes since midnight, minutes is forecast_minutes * 60000 in
\* minutes again; an invalid date prints "Invalid Date".
TimeString(now, minutes) ==
    IF minutes.t = "nan" THEN <<"I", "n", "v", "a", "l">>
    ELSE HHMM(((now * 10 + minutes.n) \div 10) % 1440)

AlertTime(now, forecast_minutes) == TimeString(now, ToNumber(forecast_minutes))

\* Lines 126-132.
Alert(risk_type, forecast_minutes, now) ==
    [risk       |-> risk_type,
     in_minutes |-> forecast_minutes,
     time       |-> AlertTime(now, forecast_minutes)]

AlertList(parsed, now) ==
    << Alert(Get(parsed, KeyRiskType), Get(parsed, KeyForecastMinutes), now) >>

\* Lines 134-155.
MainAlert(risk_type) ==
    IF risk_type = Str(HypoRisk)
    THEN [type |-> "Predictive Alert!", color |-> "#e74c3c",
          message |-> "Risk of Hypoglycemia forecasted. Check your BG and take necessary actions (consume fast-acting carbs)."]
    ELSE IF risk_type = Str(HyperRisk)
    THEN [type |-> "Warning!", color |-> "#f1c40f",
          message |-> "Risk of Hyperglycemia forecasted. Consider monitoring and adjusting insulin if advised."]
    ELSE [type |-> "Stable", color |-> "#2ecc71",
          message |-> "No immediate risk detected. Continue monitoring as usual."]

\* Lines 157-162.
PredictBody(parsed, boundedForecast, now) ==
    [forecast_mgdl |-> Get(parsed, KeyForecastMgdl),
     main_alert    |-> MainAlert(Get(parsed, KeyRiskType)),
     alerts        |-> AlertList(parsed, now),
     baseline      |-> boundedForecast]

\* Lines 113-166: the response once the text is through JSON.parse.
PredictParsed(json, boundedForecast, now) ==
    IF ~json.ok
    THEN Failed(500, "error", "Prediction failed")
    ELSE [status |-> 200,
          body |-> PredictBody(Fallback(json.v, boundedForecast),
                               boundedForecast, now)]

\* Lines 101-166: the continuation of the handler after the await.
PredictResponse(body, reply, now) ==
    IF reply.state = "rejected" \/ reply.content.t # "string"
    THEN Failed(500, "error", "Prediction failed")
    ELSE PredictParsed(ExtractJSON(reply.content.s), BoundedForecast(body), now)

----------------------------------------------------------------------------
(* src/index.js: POST /summarize *)

\* The guard of line 173 negated.
SummarizeValid(body) == Truthy(body.values)

\* Lines 191-206.
SummarizeResponse(reply) ==
    IF reply.state = "rejected" \/ reply.content.t # "string"
    THEN Failed(500, "message", "Error generating summary")
    ELSE [status |-> 200, body |-> [summary |-> Str(Trim(reply.content.s))]]

----------------------------------------------------------------------------
(* src/unnamed/part_000: POST /forecast and POST /predict, which validate *)
(* nothing and apply no fallback.                                         *)

\* Lines 25-38.
LegacyForecastResponse(reply) ==
    IF reply.state = "rejected" \/ reply.content.t # "string"
    THEN Failed(500, "error", "Forecast failed")
    ELSE [status |-> 200, body |-> [forecast |-> Str(Trim(reply.content.s))]]

\* Lines 92-108.
LegacyMainAlert(risk_type) ==
    IF risk_type = Str(HypoRisk)
    THEN [type |-> "Predictive Alert!",
          message |-> "Risk of Hypoglycemia forecasted. Check your BG and take necessary actions."]
    ELSE IF risk_type = Str(HyperRisk)
    THEN [type |-> "Warning!",
          message |-> "Risk of Hyperglycemia forecasted. Monitor closely."]
    ELSE [type |-> "Stable", message |-> "No immediate risk detected."]

\* Lines 79-114.
LegacyPredictParsed(json, now) ==
    IF ~json.ok
    THEN Failed(500, "error", "Prediction failed")
    ELSE [status |-> 200,
          body |-> [forecast_mgdl |-> Get(json.v, KeyForecastMgdl),
                    main_alert    |-> LegacyMainAlert(Get(json.v, KeyRiskType)),
                    alerts        |-> AlertList(json.v, now)]]

\* Lines 67-118.
LegacyPredictResponse(reply, now) ==
    IF reply.state = "rejected" \/ reply.content.t # "string"
    THEN Failed(500, "error", "Prediction failed")
    ELSE LegacyPredictParsed(ExtractJSON(reply.content.s), now)

----------------------------------------------------------------------------
(* Inputs: provider contents and request fields, as characters *)

\* 112
TxtNumber ==
    <<"1", "1", "2">>

\*  118.5 mg/dL\n
TxtNumberUnit ==
    <<" ", "1", "1", "8", ".", "5", " ", "m", "g", "/", "d", "L", "\n">>

\* about 110
TxtProse ==
    <<"a", "b", "o", "u", "t", " ", "1", "1", "0">>

\* 
TxtEmpty ==
    <<>>

\* 40
TxtForty ==
    <<"4", "0">>

\* 400
TxtFourHundred ==
    <<"4", "0", "0">>

\* 399.9
TxtJustBelow ==
    <<"3", "9", "9", ".", "9">>

\* {"forecast_mgdl": 95, "risk_type": "Hypo risk", "forecast_minutes": 30}
TxtHypo ==
    <<"{", "\"", "f", "o", "r", "e", "c", "a", "s", "t", "_", "m", "g",
      "d", "l", "\"", ":", " ", "9", "5", ",", " ", "\"", "r", "i", "s",
      "k", "_", "t", "y", "p", "e", "\"", ":", " ", "\"", "H", "y", "p",
      "o", " ", "r", "i", "s", "k", "\"", ",", " ", "\"", "f", "o", "r",
      "e", "c", "a", "s", "t", "_", "m", "i", "n", "u", "t", "e", "s",
      "\"", ":", " ", "3", "0", "}">>

\* Here you go: {"forecast_mgdl": 150, "forecast_minutes": 30} Stay safe.
TxtWrapped ==
    <<"H", "e", "r", "e", " ", "y", "o", "u", " ", "g", "o", ":", " ", "{",
      "\"", "f", "o", "r", "e", "c", "a", "s", "t", "_", "m", "g", "d",
      "l", "\"", ":", " ", "1", "5", "0", ",", " ", "\"", "f", "o", "r",
      "e", "c", "a", "s", "t", "_", "m", "i", "n", "u", "t", "e", "s",
      "\"", ":", " ", "3", "0", "}", " ", "S", "t", "a", "y", " ", "s",
      "a", "f", "e", ".">>

\* {"forecast_mgdl": 151, "forecast_minutes": 30}
TxtNoRiskHigh ==
    <<"{", "\"", "f", "o", "r", "e", "c", "a", "s", "t", "_", "m", "g",
      "d", "l", "\"", ":", " ", "1", "5", "1", ",", " ", "\"", "f", "o",
      "r", "e", "c", "a", "s", "t", "_", "m", "i", "n", "u", "t", "e", "s",
      "\"", ":", " ", "3", "0", "}">>

\* {"forecast_mgdl": 99.9, "forecast_minutes": 45}
TxtNoRiskLow ==
    <<"{", "\"", "f", "o", "r", "e", "c", "a", "s", "t", "_", "m", "g",
      "d", "l", "\"", ":", " ", "9", "9", ".", "9", ",", " ", "\"", "f",
      "o", "r", "e", "c", "a", "s", "t", "_", "m", "i", "n", "u", "t", "e",
      "s", "\"", ":", " ", "4", "5", "}">>

\* {"forecast_mgdl": 100, "forecast_minutes": 30}
TxtNoRiskHundred ==
    <<"{", "\"", "f", "o", "r", "e", "c", "a", "s", "t", "_", "m", "g",
      "d", "l", "\"", ":", " ", "1", "0", "0", ",", " ", "\"", "f", "o",
      "r", "e", "c", "a", "s", "t", "_", "m", "i", "n", "u", "t", "e", "s",
      "\"", ":", " ", "3", "0", "}">>

\* {"forecast_mgdl": "n/a", "forecast_minutes": 30}
TxtNoForecast ==
    <<"{", "\"", "f", "o", "r", "e", "c", "a", "s", "t", "_", "m", "g",
      "d", "l", "\"", ":", " ", "\"", "n", "/", "a", "\"", ",", " ", "\"",
      "f", "o", "r", "e", "c", "a", "s", "t", "_", "m", "i", "n", "u", "t",
      "e", "s", "\"", ":", " ", "3", "0", "}">>

\* {"forecast_mgdl": 120, "risk_type": "Stable"}
TxtNoMinutes ==
    <<"{", "\"", "f", "o", "r", "e", "c", "a", "s", "t", "_", "m", "g",
      "d", "l", "\"", ":", " ", "1", "2", "0", ",", " ", "\"", "r", "i",
      "s", "k", "_", "t", "y", "p", "e", "\"", ":", " ", "\"", "S", "t",
      "a", "b", "l", "e", "\"", "}">>

\* {"forecast_mgdl": 180, "risk_type": "High", "forecast_minutes": 30}
TxtOtherRisk ==
    <<"{", "\"", "f", "o", "r", "e", "c", "a", "s", "t", "_", "m", "g",
      "d", "l", "\"", ":", " ", "1", "8", "0", ",", " ", "\"", "r", "i",
      "s", "k", "_", "t", "y", "p", "e", "\"", ":", " ", "\"", "H", "i",
      "g", "h", "\"", ",", " ", "\"", "f", "o", "r", "e", "c", "a", "s",
      "t", "_", "m", "i", "n", "u", "t", "e", "s", "\"", ":", " ", "3",
      "0", "}">>

\* {"forecast_mgdl": 62, "risk_type": "Hyper risk", "forecast_minutes": 30}
TxtWrongRisk ==
    <<"{", "\"", "f", "o", "r", "e", "c", "a", "s", "t", "_", "m", "g",
      "d", "l", "\"", ":", " ", "6", "2", ",", " ", "\"", "r", "i", "s",
      "k", "_", "t", "y", "p", "e", "\"", ":", " ", "\"", "H", "y", "p",
      "e", "r", " ", "r", "i", "s", "k", "\"", ",", " ", "\"", "f", "o",
      "r", "e", "c", "a", "s", "t", "_", "m", "i", "n", "u", "t", "e", "s",
      "\"", ":", " ", "3", "0", "}">>

\* {"forecast_mgdl": "120", "forecast_minutes": "30"}
TxtStrings ==
    <<"{", "\"", "f", "o", "r", "e", "c", "a", "s", "t", "_", "m", "g",
      "d", "l", "\"", ":", " ", "\"", "1", "2", "0", "\"", ",", " ", "\"",
      "f", "o", "r", "e", "c", "a", "s", "t", "_", "m", "i", "n", "u", "t",
      "e", "s", "\"", ":", " ", "\"", "3", "0", "\"", "}">>

\* {"forecast_mgdl": [110], "forecast_minutes": 30}
TxtArray ==
    <<"{", "\"", "f", "o", "r", "e", "c", "a", "s", "t", "_", "m", "g",
      "d", "l", "\"", ":", " ", "[", "1", "1", "0", "]", ",", " ", "\"",
      "f", "o", "r", "e", "c", "a", "s", "t", "_", "m", "i", "n", "u", "t",
      "e", "s", "\"", ":", " ", "3", "0", "}">>

\* {"forecast_mgdl": null, "risk_type": "", "forecast_minutes": 30}
TxtNull ==
    <<"{", "\"", "f", "o", "r", "e", "c", "a", "s", "t", "_", "m", "g",
      "d", "l", "\"", ":", " ", "n", "u", "l", "l", ",", " ", "\"", "r",
      "i", "s", "k", "_", "t", "y", "p", "e", "\"", ":", " ", "\"", "\"",
      ",", " ", "\"", "f", "o", "r", "e", "c", "a", "s", "t", "_", "m",
      "i", "n", "u", "t", "e", "s", "\"", ":", " ", "3", "0", "}">>

\* I cannot help with that.
TxtRefusal ==
    <<"I", " ", "c", "a", "n", "n", "o", "t", " ", "h", "e", "l", "p", " ",
      "w", "i", "t", "h", " ", "t", "h", "a", "t", ".">>

\* {forecast_mgdl: 95}
TxtBadJSON ==
    <<"{", "f", "o", "r", "e", "c", "a", "s", "t", "_", "m", "g", "d", "l",
      ":", " ", "9", "5", "}">>

\* {"forecast_mgdl": 95} or {"forecast_mgdl": 96}
TxtTwoObjects ==
    <<"{", "\"", "f", "o", "r", "e", "c", "a", "s", "t", "_", "m", "g",
      "d", "l", "\"", ":", " ", "9", "5", "}", " ", "o", "r", " ", "{",
      "\"", "f", "o", "r", "e", "c", "a", "s", "t", "_", "m", "g", "d",
      "l", "\"", ":", " ", "9", "6", "}">>

\* Fast-acting
TxtFastActing ==
    <<"F", "a", "s", "t", "-", "a", "c", "t", "i", "n", "g">>

\* long
TxtLong ==
    <<"l", "o", "n", "g">>

\* Long + FAST mix
TxtMixed ==
    <<"L", "o", "n", "g", " ", "+", " ", "F", "A", "S", "T", " ", "m", "i",
      "x">>

\* Walking
TxtWalking ==
    <<"W", "a", "l", "k", "i", "n", "g">>

\* sitting
TxtSitting ==
    <<"s", "i", "t", "t", "i", "n", "g">>

\* Run then walk
TxtRunWalk ==
    <<"R", "u", "n", " ", "t", "h", "e", "n", " ", "w", "a", "l", "k">>

\* 120
TxtOneTwenty ==
    <<"1", "2", "0">>

\* abc
TxtAbc ==
    <<"a", "b", "c">>

\* completion.choices[0].message.content: a text, or null.
Contents ==
    {Str(s) : s \in {TxtNumber, TxtNumberUnit, TxtProse, TxtEmpty, TxtForty,
                     TxtFourHundred, TxtJustBelow, TxtHypo, TxtWrapped,
                     TxtNoRiskHigh, TxtNoRiskLow, TxtNoRiskHundred,
                     TxtNoForecast, TxtNoMinutes, TxtOtherRisk, TxtWrongRisk,
                     TxtStrings, TxtArray, TxtNull, TxtRefusal, TxtBadJSON,
                     TxtTwoObjects}}
    \cup {Null}

NoBody ==
    [currentGlucose |-> Undef, glucoseHistory |-> Undef, insulinType |-> Undef,
     insulinUnits |-> Undef, calories |-> Undef, activity |-> Undef,
     values |-> Undef]

\* req.body of POST /forecast
ForecastBodies ==
    {[NoBody EXCEPT !.currentGlucose = cg] :
        cg \in {Undef, Null, Num(0), Num(120), Tenths(1205), Num(38),
                Str(TxtOneTwenty), Str(TxtAbc), Str(TxtEmpty), Bool(TRUE),
                Arr(<<>>), Arr(<<Num(95)>>)}}

\* req.body of POST /predict
PredictBodies ==
    {[NoBody EXCEPT !.glucoseHistory = gh, !.insulinType = it,
                    !.insulinUnits = iu, !.calories = ca, !.activity = ac] :
        gh \in {Undef, Null, Str(TxtOneTwenty), Arr(<<>>), Arr(<<Num(120)>>),
                Arr(<<Num(110), Num(300)>>), Arr(<<Num(62)>>)},
        it \in {Undef, Str(TxtFastActing), Str(TxtLong), Str(TxtMixed)},
        iu \in {Undef, Num(4), Num(3)},
        ca \in {Undef, Num(400), Num(500)},
        ac \in {Undef, Str(TxtWalking), Str(TxtSitting), Str(TxtRunWalk)}}

\* req.body of POST /predict sent to src/unnamed/part_000, which reads
\* none of its fields after building the prompt.
LegacyPredictBodies ==
    {[NoBody EXCEPT !.glucoseHistory = gh] :
        gh \in {Undef, Str(TxtOneTwenty), Arr(<<>>), Arr(<<Num(120)>>)}}

\* req.body of POST /summarize
SummarizeBodies ==
    {[NoBody EXCEPT !.values = v] : v \in {Undef, Null, Object(<<>>), Arr(<<Num(120)>>)}}

\* Math.random() in hundredths.
Draws == 0..99

\* new Date(): local time in minutes since midnight (09:05, 23:45).
Clock == {545, 1425}

\* The inputs of the concurrent specification: a few of each.
SmallContents == {Str(TxtNumber), Str(TxtWrapped), Str(TxtRefusal)}
SmallForecastBodies ==
    {[NoBody EXCEPT !.currentGlucose = cg] : cg \in {Undef, Num(120)}}
SmallPredictBodies ==
    {[NoBody EXCEPT !.glucoseHistory = gh] : gh \in {Arr(<<>>), Arr(<<Num(120)>>)}}
SmallSummarizeBodies ==
    {[NoBody EXCEPT !.values = v] : v \in {Undef, Object(<<>>)}}
SmallDraws == {0, 99}
SmallClock == {545}

----------------------------------------------------------------------------
(* State *)

VARIABLES
    pc,      \* per request: "idle", "awaiting" (the provider call is
             \* pending), "settled" (its promise settled), "done" (answered)
    req,     \* per request: the server file and route serving it, req.body
    reply,   \* per request: the provider call, [state, content]
    res      \* per request: the response sent, status 0 while none is

vars == <<pc, req, reply, res>>

Requests == 1..NumReq

NoRequest == [app |-> "none", route |-> "none", body |-> NoBody]
NoCall == [state |-> "none", content |-> Undef]
NoResponse == [status |-> 0, body |-> [field |-> "", text |-> ""]]

Init ==
    /\ pc = [r \in Requests |-> "idle"]
    /\ req = [r \in Requests |-> NoRequest]
    /\ reply = [r \in Requests |-> NoCall]
    /\ res = [r \in Requests |-> NoResponse]

\* The handler answers without calling the provider.
Respond(r, request, response) ==
    /\ pc[r] = "idle"
    /\ pc' = [pc EXCEPT ![r] = "done"]
    /\ req' = [req EXCEPT ![r] = request]
    /\ res' = [res EXCEPT ![r] = response]
    /\ UNCHANGED reply

\* The handler calls openai.chat.completions.create and awaits it.
Await(r, request) ==
    /\ pc[r] = "idle"
    /\ pc' = [pc EXCEPT ![r] = "awaiting"]
    /\ req' = [req EXCEPT ![r] = request]
    /\ reply' = [reply EXCEPT ![r] = [state |-> "pending", content |-> Undef]]
    /\ UNCHANGED res

\* The awaiting handler of request r resumes and answers.
Answer(r, app, route, response) ==
    /\ pc[r] = "settled"
    /\ req[r].app = app
    /\ req[r].route = route
    /\ pc' = [pc EXCEPT ![r] = "done"]
    /\ res' = [res EXCEPT ![r] = response]
    /\ UNCHANGED <<req, reply>>

\* src/index.js lines 14-34
ForecastRecv(r, body) ==
    LET request == [app |-> "index", route |-> "/forecast", body |-> body]
    IN  /\ pc[r] = "idle"
        /\ IF ForecastValid(body)
           THEN Await(r, request)
           ELSE Respond(r, request, Failed(400, "error", "Invalid glucose value"))

\* src/index.js lines 36-49
ForecastResume(r, draw) ==
    Answer(r, "index", "/forecast", ForecastResponse(req[r].body, reply[r], draw))

\* src/index.js lines 53-107
PredictRecv(r, body) ==
    LET request == [app |-> "index", route |-> "/predict", body |-> body]
    IN  /\ pc[r] = "idle"
        /\ IF PredictValid(body)
           THEN Await(r, request)
           ELSE Respond(r, request, Failed(400, "error", "Glucose history is required"))

\* PredictResume reading the completion out of a variable all requests
\* share (here: the completion of request 1).
PredictResumeShared(r, now) ==
    Answer(r, "index", "/predict", PredictResponse(req[r].body, reply[1], now))

\* src/index.js lines 109-166
PredictResume(r, now) ==
    Answer(r, "index", "/predict", PredictResponse(req[r].body, reply[r], now))

\* src/index.js lines 170-199
SummarizeRecv(r, body) ==
    LET request == [app |-> "index", route |-> "/summarize", body |-> body]
    IN  /\ pc[r] = "idle"
        /\ IF SummarizeValid(body)
           THEN Await(r, request)
           ELSE Respond(r, request, Failed(400, "message", "No values provided"))

\* src/index.js lines 201-206
SummarizeResume(r) ==
    Answer(r, "index", "/summarize", SummarizeResponse(reply[r]))

\* src/unnamed/part_000 lines 15-31: no validation
LegacyForecastRecv(r, body) ==
    Await(r, [app |-> "part_000", route |-> "/forecast", body |-> body])

\* src/unnamed/part_000 lines 33-38
LegacyForecastResume(r) ==
    Answer(r, "part_000", "/forecast", LegacyForecastResponse(reply[r]))

\* src/unnamed/part_000 lines 42-73: no validation
LegacyPredictRecv(r, body) ==
    Await(r, [app |-> "part_000", route |-> "/predict", body |-> body])

\* src/unnamed/part_000 lines 75-118
LegacyPredictResume(r, now) ==
    Answer(r, "part_000", "/predict", LegacyPredictResponse(reply[r], now))

\* The provider resolves the pending call of request r with a content.
ProviderResolve(r, content) ==
    /\ pc[r] = "awaiting"
    /\ pc' = [pc EXCEPT ![r] = "settled"]
    /\ reply' = [reply EXCEPT ![r] = [state |-> "resolved", content |-> content]]
    /\ UNCHANGED <<req, res>>

\* The provider call of request r fails (network error, non-2xx status).
ProviderReject(r) ==
    /\ pc[r] = "awaiting"
    /\ pc' = [pc EXCEPT ![r] = "settled"]
    /\ reply' = [reply EXCEPT ![r] = [state |-> "rejected", content |-> Undef]]
    /\ UNCHANGED <<req, res>>

\* One request at a time, every input: both server files.
Next ==
    \/ \E body \in ForecastBodies : ForecastRecv(1, body)
    \/ \E body \in PredictBodies : PredictRecv(1, body)
    \/ \E body \in SummarizeBodies : SummarizeRecv(1, body)
    \/ \E body \in ForecastBodies : LegacyForecastRecv(1, body)
    \/ \E body \in LegacyPredictBodies : LegacyPredictRecv(1, body)
    \/ \E content \in Contents : ProviderResolve(1, content)
    \/ ProviderReject(1)
    \/ \E draw \in Draws : ForecastResume(1, draw)
    \/ \E now \in Clock : PredictResume(1, now)
    \/ SummarizeResume(1)
    \/ LegacyForecastResume(1)
    \/ \E now \in Clock : LegacyPredictResume(1, now)

Spec == Init /\ [][Next]_vars

\* The continuation of request r, whichever handler awaits.
Resume(r) ==
    \/ \E draw \in SmallDraws : ForecastResume(r, draw)
    \/ \E now \in SmallClock : PredictResume(r, now)
    \/ SummarizeResume(r)

\* NumReq requests of src/index.js in flight together, under every
\* interleaving of their steps.
ConcNext ==
    \E r \in Requests :
        \/ \E body \in SmallForecastBodies : ForecastRecv(r, body)
        \/ \E body \in SmallPredictBodies : PredictRecv(r, body)
        \/ \E body \in SmallSummarizeBodies : SummarizeRecv(r, body)
        \/ \E content \in SmallContents : ProviderResolve(r, content)
        \/ ProviderReject(r)
        \/ Resume(r)

\* Request r is answered after its provider call settled: the steps of
\* ConcNext that take pc[r] from "settled" to "done" are the Resume(r) steps.
Resumed(r) == pc[r] = "settled" /\ pc' = [pc EXCEPT ![r] = "done"]

\* The event loop runs the continuation of every settled promise; nothing
\* makes a client send a request or the provider answer one.
ConcSpec ==
    Init /\ [][ConcNext]_vars /\ \A r \in Requests : WF_pc(Resumed(r))

----------------------------------------------------------------------------
(* Claims *)

Answered(r) == pc[r] = "done"
Served(r, app, route) == req[r].app = app /\ req[r].route = route
\* The provider call of request r resolved with a text.
ResolvedText(r) == reply[r].state = "resolved" /\ reply[r].content.t = "string"
Text(r) == reply[r].content.s
\* HTTP 400 with an error field, and no provider call made.
Rejected400(r) ==
    /\ pc[r] = "done"
    /\ res[r].status = 400
    /\ res[r].body.field = "error"
    /\ reply[r].state = "none"

\* glucoseHistory is absent, is not an array, or is an empty array.
InvalidHistory(body) ==
    \/ body.glucoseHistory.t \in {"undefined", "null"}
    \/ body.glucoseHistory.t # "array"
    \/ Len(body.glucoseHistory.a) = 0

\* C1: every POST /predict request whose glucoseHistory is absent, not an
\* array or empty is answered HTTP 400 with an error field, and the
\* provider is never called for it.  (Stated for both server files; it
\* fails on src/unnamed/part_000, which validates nothing.)
C1_InvalidHistoryRejected ==
    \A r \in Requests :
        (req[r].route = "/predict" /\ InvalidHistory(req[r].body)) => Rejected400(r)

\* C1 restricted to src/index.js, where it holds.
C1_IndexRejectsInvalidHistory ==
    \A r \in Requests :
        (Served(r, "index", "/predict") /\ InvalidHistory(req[r].body))
            => Rejected400(r)

\* currentGlucose is a number, or a string that reads as one.
Numeric(v) ==
    \/ v.t = "number"
    \/ v.t = "string" /\ Len(Trim(v.s)) > 0 /\ StringToNumber(v.s).t = "number"

\* C2: every POST /forecast request whose currentGlucose is missing or not
\* numeric is answered HTTP 400 with an error field; none reaches the
\* provider or a 200 response.
C2_NonNumericRejected ==
    \A r \in Requests :
        (req[r].route = "/forecast" /\ ~Numeric(req[r].body.currentGlucose))
            => Rejected400(r)

\* C2 on src/index.js alone: it fails there too (true, [] and [95] pass
\* the guard of line 17).
C2_IndexRejectsNonNumeric ==
    \A r \in Requests :
        (Served(r, "index", "/forecast") /\ ~Numeric(req[r].body.currentGlucose))
            => Rejected400(r)

\* The offsets Math.floor(Math.random() * 10 - 5) can take, in tenths.
Offsets == {10 * k : k \in (0 - 5)..4}

\* forecast is currentGlucose plus an integer offset in -5..+4.
NearCurrent(forecast, currentGlucose) ==
    /\ forecast.t = "number"
    /\ ToNumber(currentGlucose).t = "number"
    /\ forecast.n - ToNumber(currentGlucose).n \in Offsets

\* C3: for every accepted POST /forecast request whose provider call
\* resolves with a text: when the text parses to a number strictly between
\* 40 and 400 the forecast returned is that number, otherwise it is
\* currentGlucose plus an integer offset in -5..+4.
C3_ForecastPlausibleOrNearCurrent ==
    \A r \in Requests :
        (Answered(r) /\ Served(r, "index", "/forecast") /\ ResolvedText(r)) =>
            /\ res[r].status = 200
            /\ IF ParseFloat(Text(r)).t = "number" /\ ParseFloat(Text(r)).n > 400
                  /\ ParseFloat(Text(r)).n < 4000
               THEN res[r].body.forecast = ParseFloat(Text(r))
               ELSE NearCurrent(res[r].body.forecast, req[r].body.currentGlucose)

\* C3's case: the provider answered exactly 400, which is not plausible,
\* and the forecast is currentGlucose + 4.
C3_Witness ==
    \E r \in Requests :
        /\ Answered(r) /\ Served(r, "index", "/forecast")
        /\ reply[r].content = Str(TxtFourHundred)
        /\ req[r].body.currentGlucose = Num(120)
        /\ res[r].body.forecast = Num(124)

\* The insulin dose of the claim's formula, in tenths; an absent dose is
\* read as no dose.
Dose(body) == IF body.insulinUnits.t = "number" THEN body.insulinUnits.n ELSE 0

HasWord(v, word) == v.t = "string" /\ Includes(ToLowerCase(v.s), word)

\* The adjustment as C4 states it, in tenths: a sum of four terms.
StatedAdjustment(body) ==
      (IF HasWord(body.insulinType, Fast) THEN 0 - 3 * Dose(body) ELSE 0)
    + (IF HasWord(body.insulinType, Long) THEN 0 - (3 * Dose(body)) \div 2 ELSE 0)
    + (IF body.calories.t = "number" /\ body.calories.n > 4000 THEN 150 ELSE 0)
    + (IF HasWord(body.activity, Walk) \/ HasWord(body.activity, Run)
       THEN 0 - 100 ELSE 0)

Clamp(x, lower, upper) == IF x < lower THEN lower ELSE IF x > upper THEN upper ELSE x

StatedBaseline(body) ==
    Clamp(body.glucoseHistory.a[Len(body.glucoseHistory.a)].n
              + StatedAdjustment(body), 600, 2500)

\* C4: for every accepted POST /predict request the baseline field equals
\* clamp(latest + adjustment, 60, 250), adjustment being the sum of the
\* insulin, calories and activity terms.
C4_BaselineIsClampedSum ==
    \A r \in Requests :
        (Answered(r) /\ Served(r, "index", "/predict") /\ res[r].status = 200) =>
            /\ res[r].body.baseline.t = "number"
            /\ res[r].body.baseline.n = StatedBaseline(req[r].body)

\* C4 where the dose is given: the formula is the code's.
C4_BaselineIsClampedSumGivenDose ==
    \A r \in Requests :
        (Answered(r) /\ Served(r, "index", "/predict") /\ res[r].status = 200
         /\ req[r].body.insulinUnits.t = "number") =>
            /\ res[r].body.baseline.t = "number"
            /\ res[r].body.baseline.n = StatedBaseline(req[r].body)

\* C5: in every 200 response of POST /predict the baseline field is a
\* number in [60, 250].
C5_BaselineInRange ==
    \A r \in Requests :
        (Answered(r) /\ Served(r, "index", "/predict") /\ res[r].status = 200) =>
            /\ res[r].body.baseline.t = "number"
            /\ res[r].body.baseline.n >= 600
            /\ res[r].body.baseline.n <= 2500

\* The risk the thresholds give a number of tenths.
StatedRisk(n) ==
    IF n < 1000 THEN Str(HypoRisk) ELSE IF n > 1500 THEN Str(HyperRisk) ELSE Str(Stable)

\* The provider's JSON carried no risk_type.
NoRiskType(r) == Get(ExtractJSON(Text(r)).v, KeyRiskType).t = "undefined"

\* C6: in every 200 response of POST /predict whose provider JSON carried
\* no risk_type, alerts[0].risk is the risk the thresholds give the
\* forecast_mgdl of the same response (Hypo below 100, Hyper above 150,
\* Stable from 100 to 150), also when forecast_mgdl is the baseline.
C6_RiskDerivedFromForecast ==
    \A r \in Requests :
        (Answered(r) /\ Served(r, "index", "/predict") /\ res[r].status = 200
         /\ NoRiskType(r) /\ res[r].body.forecast_mgdl.t = "number") =>
            res[r].body.alerts[1].risk = StatedRisk(res[r].body.forecast_mgdl.n)

\* C6's case: forecast_mgdl was replaced by a baseline below 100 and the
\* risk reported is Hypo risk.
C6_Witness ==
    \E r \in Requests :
        /\ Answered(r) /\ Served(r, "index", "/predict") /\ res[r].status = 200
        /\ reply[r].content = Str(TxtNoForecast)
        /\ res[r].body.forecast_mgdl = res[r].body.baseline
        /\ res[r].body.baseline.t = "number"
        /\ res[r].body.baseline.n < 1000
        /\ res[r].body.alerts[1].risk = Str(HypoRisk)

\* The provider's text does not parse into the shape the handler expects.
Unparsable(r) ==
    \/ req[r].route = "/forecast" /\ ParseFloat(Text(r)).t = "nan"
    \/ req[r].route = "/predict"
       /\ (~ExtractJSON(Text(r)).ok
           \/ IsNaN(Get(ExtractJSON(Text(r)).v, KeyForecastMgdl)))

C8_NumericOr500 ==
    \A r \in Requests :
        (Answered(r) /\ Served(r, "index", "/predict") /\ ResolvedText(r)) =>
            /\ ~ExtractJSON(Text(r)).ok => res[r].status = 500
            /\ res[r].status = 200 =>
                  /\ res[r].body.forecast_mgdl.t = "number"
                  /\ res[r].body.alerts[1].in_minutes.t = "number"

\* C9: every 200 response of POST /predict carries one alert, and
\* main_alert is 'Predictive Alert!' (red) exactly when alerts[0].risk is
\* Hypo risk, 'Warning!' (yellow) exactly when it is Hyper risk, 'Stable'
\* (green) exactly when it is Stable.
C9_MainAlertMatchesRisk ==
    \A r \in Requests :
        (Answered(r) /\ Served(r, "index", "/predict") /\ res[r].status = 200) =>
            /\ Len(res[r].body.alerts) = 1
            /\ (res[r].body.main_alert.type = "Predictive Alert!"
                    /\ res[r].body.main_alert.color = "#e74c3c")
                 <=> (res[r].body.alerts[1].risk = Str(HypoRisk))
            /\ (res[r].body.main_alert.type = "Warning!"
                    /\ res[r].body.main_alert.color = "#f1c40f")
                 <=> (res[r].body.alerts[1].risk = Str(HyperRisk))
            /\ (res[r].body.main_alert.type = "Stable"
                    /\ res[r].body.main_alert.color = "#2ecc71")
                 <=> (res[r].body.alerts[1].risk = Str(Stable))

\* The responses the handler of request r can send for its own req.body
\* and its own provider reply, whatever the other requests are doing (over
\* the draws and clock readings of the concurrent specification).
OwnResponses(r) ==
    CASE req[r].route = "/forecast" ->
            IF ForecastValid(req[r].body)
            THEN {ForecastResponse(req[r].body, reply[r], draw) : draw \in SmallDraws}
            ELSE {Failed(400, "error", "Invalid glucose value")}
      [] req[r].route = "/predict" ->
            IF PredictValid(req[r].body)
            THEN {PredictResponse(req[r].body, reply[r], now) : now \in SmallClock}
            ELSE {Failed(400, "error", "Glucose history is required")}
      [] req[r].route = "/summarize" ->
            IF SummarizeValid(req[r].body)
            THEN {SummarizeResponse(reply[r])}
            ELSE {Failed(400, "message", "No values provided")}
      [] OTHER -> {}

Independent(r) == Answered(r) => res[r] \in OwnResponses(r)

\* C10: with any number of requests in flight, under every interleaving of
\* their provider calls, each response is a function of the request's own
\* body and own provider reply, and every request whose own provider call
\* resolves or fails is answered, also while the call of another request
\* never returns.
C10_RequestsIsolated ==
    /\ [](\A r \in Requests : Independent(r))
    /\ \A r \in Requests : (pc[r] = "settled") ~> (pc[r] = "done")

\* C10's case: one request still waits for the provider while another,
\* whose call resolved, has its 200 response.
C10_Witness ==
    \E r1, r2 \in Requests :
        /\ r1 # r2
        /\ pc[r1] = "awaiting"
        /\ Answered(r2) /\ reply[r2].state = "resolved" /\ res[r2].status = 200

============================================================================
